---- MODULE Spec2Model ----
(***************************************************************************)
(* A model of the vibebase-social backend: the persistence operations of   *)
(* server/storage.ts (DatabaseStorage) and the request handlers of the     *)
(* routes file (registerRoutes).  Tables are the state; every storage      *)
(* method is an operator over tables, translated statement by statement.   *)
(***************************************************************************)
EXTENDS Integers, Sequences, FiniteSets, TLC

VARIABLES
    users,          \* users table: id -> NoUser (no row) or [exists, isAdmin, isVerified]
    posts,          \* posts table: set of rows [id, userId, createdAt, caption]
    likes,          \* likes table: <<userId, postId>> -> number of rows
    comments,       \* comments table: set of rows [id, postId]
    follows,        \* follows table: <<followerId, followingId>> -> number of rows
    stories,        \* stories table: set of rows [id, createdAt, expiresAt]
    nextId,         \* the serial id sequences: [post, comment, story]
    now,            \* the clock (NOW() / new Date())
    procs,          \* in-flight storage calls: request -> [op, a, b, pc, seen]
    last            \* the last HTTP exchange: the request and its response

vars == <<users, posts, likes, comments, follows, stories, nextId, now, procs, last>>

----------------------------------------------------------------------------
(* Bounds and domains *)

MaxPosts == 2
MaxComments == 2
MaxTime == 3
MaxStories == 2
MaxTagPosts == 3
MaxTagLimit == 3

UserIds == {"u1", "u2"}
PostIds == 1..MaxPosts
LikeKeys == UserIds \X PostIds
FollowKeys == UserIds \X UserIds

Requests == {"r1", "r2"}

NoCaption == <<>>
NoOp == [op |-> "none"]
Idle == [op |-> "idle"]
NoUser == [exists |-> FALSE]

Tables == [posts |-> posts, likes |-> likes, comments |-> comments, follows |-> follows]

----------------------------------------------------------------------------
(* Schema: the constraints of the store *)

PostExists(P, id) == \E r \in P : r.id = id

\* whether likes.postId and comments.postId are foreign keys into posts: the
\* store is taken to enforce none, so rows may outlive their post
PostForeignKeys == FALSE

\* an insert of a like or comment row for post id passes the foreign key
referencesPost(P, id) == PostForeignKeys => PostExists(P, id)

\* a delete of post row id passes the foreign key: nothing refers to it
unreferenced(L, C, id) ==
    PostForeignKeys => /\ \A k \in DOMAIN L : k[2] = id => L[k] = 0
                       /\ \A c \in C : c.postId # id

\* the likes table without its unique index
LikesNotUnique == FALSE

\* a unique index on likes (userId, postId)
LikesUnique == TRUE

\* a unique index on follows (followerId, followingId)
FollowsUnique == TRUE

\* db.insert(likes).values({ userId, postId }): fails on a constraint
\* violation
insertLike(L, P, u, p) ==
    IF (LikesUnique /\ L[<<u, p>>] > 0) \/ ~referencesPost(P, p)
    THEN [ok |-> FALSE, likes |-> L]
    ELSE [ok |-> TRUE, likes |-> [L EXCEPT ![<<u, p>>] = @ + 1]]

\* db.insert(follows).values({ followerId, followingId }): fails on a
\* uniqueness violation
insertFollow(F, f, g) ==
    IF FollowsUnique /\ F[<<f, g>>] > 0
    THEN [ok |-> FALSE, follows |-> F]
    ELSE [ok |-> TRUE, follows |-> [F EXCEPT ![<<f, g>>] = @ + 1]]

----------------------------------------------------------------------------
(* Storage statements and queries *)

\* select ... from likes where userId = u and postId = p limit 1
existingLike(L, u, p) == L[<<u, p>>] > 0

\* db.delete(likes).where(userId = u and postId = p): every matching row
deleteLike(L, u, p) == [L EXCEPT ![<<u, p>>] = 0]

existingFollow(F, f, g) == F[<<f, g>>] > 0

deleteFollow(F, f, g) == [F EXCEPT ![<<f, g>>] = 0]

RECURSIVE SumOver(_, _)
SumOver(f, S) ==
    IF S = {} THEN 0
    ELSE LET k == CHOOSE x \in S : TRUE IN f[k] + SumOver(f, S \ {k})

getLikeCount(L, p) == SumOver(L, {k \in DOMAIN L : k[2] = p})

isPostLiked(L, u, p) == L[<<u, p>>] > 0

getFollowerCount(F, g) == SumOver(F, {k \in DOMAIN F : k[2] = g})

getFollowingCount(F, f) == SumOver(F, {k \in DOMAIN F : k[1] = f})

isFollowing(F, f, g) == F[<<f, g>>] > 0

\* db.delete(likes).where(eq(likes.postId, id))
deleteLikesOfPost(L, id) == [k \in DOMAIN L |-> IF k[2] = id THEN 0 ELSE L[k]]

\* db.delete(comments).where(eq(comments.postId, id))
deleteCommentsOfPost(C, id) == {c \in C : c.postId # id}

\* db.delete(posts).where(and(eq(posts.id, id), eq(posts.userId, userId)))
deleteOwnedPostRow(P, id, userId) == {r \in P : ~(r.id = id /\ r.userId = userId)}

\* db.delete(posts).where(eq(posts.id, id))
deletePostRow(P, id) == {r \in P : r.id # id}

\* toggleLike whose delete branch answers false and deletes nothing
toggleLike_KeepsRow(L, P, u, p) ==
    IF existingLike(L, u, p)
    THEN [ret |-> "false", likes |-> L]
    ELSE LET r == insertLike(L, P, u, p)
         IN  [ret |-> IF r.ok THEN "true" ELSE "error", likes |-> r.likes]

\* toggleLike run without interruption: read, then delete or insert
toggleLike(L, P, u, p) ==
    IF existingLike(L, u, p)
    THEN [ret |-> "false", likes |-> deleteLike(L, u, p)]
    ELSE LET r == insertLike(L, P, u, p)
         IN  [ret |-> IF r.ok THEN "true" ELSE "error", likes |-> r.likes]

toggleFollow(F, f, g) ==
    IF existingFollow(F, f, g)
    THEN [ret |-> "false", follows |-> deleteFollow(F, f, g)]
    ELSE LET r == insertFollow(F, f, g)
         IN  [ret |-> IF r.ok THEN "true" ELSE "error", follows |-> r.follows]

\* deletePost run without interruption: its three statements in order (the
\* first two leave nothing that refers to the post)
deletePost(T, id, userId) ==
    [T EXCEPT !.likes = deleteLikesOfPost(T.likes, id),
              !.comments = deleteCommentsOfPost(T.comments, id),
              !.posts = deleteOwnedPostRow(T.posts, id, userId)]

\* deletePostAsAdmin that forgets the comments
deletePostAsAdmin_KeepsComments(T, id) ==
    [T EXCEPT !.likes = deleteLikesOfPost(T.likes, id),
              !.posts = deletePostRow(T.posts, id)]

deletePostAsAdmin(T, id) ==
    [T EXCEPT !.likes = deleteLikesOfPost(T.likes, id),
              !.comments = deleteCommentsOfPost(T.comments, id),
              !.posts = deletePostRow(T.posts, id)]

----------------------------------------------------------------------------
(* Spec: the storage operations on posts, likes and comments, each call   *)
(* run to completion                                                       *)

EmptyLikes == [k \in LikeKeys |-> 0]
EmptyFollows == [k \in FollowKeys |-> 0]

Init ==
    /\ users = [u \in UserIds |-> NoUser]
    /\ posts = {}
    /\ likes = EmptyLikes
    /\ comments = {}
    /\ follows = EmptyFollows
    /\ stories = {}
    /\ nextId = [post |-> 1, comment |-> 1, story |-> 1]
    /\ now = 0
    /\ procs = <<>>
    /\ last = NoOp

\* createPost: insert one row, the id drawn from the serial sequence (at most
\* cap posts are ever created)
CreatePost(u, caption, cap) ==
    /\ nextId.post <= cap
    /\ posts' = posts \cup {[id |-> nextId.post, userId |-> u,
                            createdAt |-> now, caption |-> caption]}
    /\ nextId' = [nextId EXCEPT !.post = @ + 1]
    /\ UNCHANGED <<users, likes, comments, follows, stories, now, procs, last>>

\* createComment: insert one row; no statement checks that the post exists
CreateComment(p) ==
    /\ nextId.comment <= MaxComments
    /\ referencesPost(posts, p)
    /\ comments' = comments \cup {[id |-> nextId.comment, postId |-> p]}
    /\ nextId' = [nextId EXCEPT !.comment = @ + 1]
    /\ UNCHANGED <<users, posts, likes, follows, stories, now, procs, last>>

ToggleLike(u, p) ==
    /\ likes' = toggleLike(likes, posts, u, p).likes
    /\ UNCHANGED <<users, posts, comments, follows, stories, nextId, now, procs, last>>

ToggleFollow(f, g) ==
    /\ follows' = toggleFollow(follows, f, g).follows
    /\ UNCHANGED <<users, posts, likes, comments, stories, nextId, now, procs, last>>

DeletePost(id, userId) ==
    LET T == deletePost(Tables, id, userId)
    IN  /\ posts' = T.posts
        /\ likes' = T.likes
        /\ comments' = T.comments
        /\ UNCHANGED <<users, follows, stories, nextId, now, procs, last>>

DeletePostAsAdmin(id) ==
    LET T == deletePostAsAdmin(Tables, id)
    IN  /\ posts' = T.posts
        /\ likes' = T.likes
        /\ comments' = T.comments
        /\ UNCHANGED <<users, follows, stories, nextId, now, procs, last>>

Next ==
    \/ \E u \in UserIds : CreatePost(u, NoCaption, MaxPosts)
    \/ \E p \in PostIds : CreateComment(p)
    \/ \E u \in UserIds, p \in PostIds : ToggleLike(u, p)
    \/ \E id \in PostIds, u \in UserIds : DeletePost(id, u)
    \/ \E id \in PostIds : DeletePostAsAdmin(id)

Spec == Init /\ [][Next]_vars

----------------------------------------------------------------------------
(* SpecToggle: toggleLike and toggleFollow, each call run to completion *)

NextToggle ==
    \/ \E u \in UserIds, p \in PostIds : ToggleLike(u, p)
    \/ \E f \in UserIds, g \in UserIds : ToggleFollow(f, g)

SpecToggle == Init /\ [][NextToggle]_vars

----------------------------------------------------------------------------
(* Properties of the storage operations run to completion *)

OwnerOf(P, id) == (CHOOSE r \in P : r.id = id).userId

LikeRestored(L, u, p) ==
    LET r1 == toggleLike(L, posts, u, p)
        r2 == toggleLike(r1.likes, posts, u, p)
    IN  /\ r2.likes = L
        /\ isPostLiked(r2.likes, u, p) = isPostLiked(L, u, p)
        /\ getLikeCount(r2.likes, p) = getLikeCount(L, p)
        /\ {r1.ret, r2.ret} = {"true", "false"}

FollowRestored(F, f, g) ==
    LET r1 == toggleFollow(F, f, g)
        r2 == toggleFollow(r1.follows, f, g)
    IN  /\ r2.follows = F
        /\ isFollowing(r2.follows, f, g) = isFollowing(F, f, g)
        /\ getFollowerCount(r2.follows, g) = getFollowerCount(F, g)
        /\ getFollowingCount(r2.follows, f) = getFollowingCount(F, f)
        /\ {r1.ret, r2.ret} = {"true", "false"}

\* C1: whenever toggleLike(u, p) runs from a reachable state, running it again
\* from the state it leaves gives back the likes table it started from, with
\* isPostLiked and getLikeCount as before and the two return values opposite;
\* likewise toggleFollow(f, g) with isFollowing and the two follow counts.
C1_ToggleTwiceRestores ==
    [][ /\ \A u \in UserIds, p \in PostIds :
              ToggleLike(u, p) =>
                  /\ toggleLike(likes', posts', u, p).likes = likes
                  /\ LikeRestored(likes, u, p)
        /\ \A f \in UserIds, g \in UserIds :
              ToggleFollow(f, g) =>
                  /\ toggleFollow(follows', f, g).follows = follows
                  /\ FollowRestored(follows, f, g) ]_vars

\* a state toggles have produced: a post liked by both users (count 2), so the
\* count a double toggle must restore is neither 0 nor 1, and a follow in place
C1_Witness ==
    /\ \E p \in PostIds : getLikeCount(likes, p) = 2
    /\ \E p \in PostIds : getLikeCount(likes, p) = 0
    /\ \E f \in UserIds, g \in UserIds : f # g /\ isFollowing(follows, f, g)
                                         /\ ~isFollowing(follows, g, f)

\* C3: a step that is deletePost(id, owner) by the owner of an existing post, or
\* deletePostAsAdmin(id), leaves no post, like or comment row with that post
\* id, and leaves the rows of every other post as they were.
C3_DeleteCascades ==
    [][ \A id \in PostIds :
          ( \/ PostExists(posts, id) /\ DeletePost(id, OwnerOf(posts, id))
            \/ DeletePostAsAdmin(id) )
          => /\ ~PostExists(posts', id)
             /\ \A u \in UserIds : likes'[<<u, id>>] = 0
             /\ \A c \in comments' : c.postId # id
             /\ {r \in posts' : r.id # id} = {r \in posts : r.id # id}
             /\ \A k \in LikeKeys : k[2] # id => likes'[k] = likes[k]
             /\ {c \in comments' : c.postId # id} = {c \in comments : c.postId # id} ]_vars

\* post 1 was created and is gone together with all its rows, while post 2 still
\* has a like and a comment
C3_Witness ==
    /\ nextId.post > 2
    /\ ~PostExists(posts, 1)
    /\ getLikeCount(likes, 1) = 0
    /\ \A c \in comments : c.postId # 1
    /\ PostExists(posts, 2)
    /\ getLikeCount(likes, 2) > 0
    /\ \E c \in comments : c.postId = 2
    /\ nextId.comment > 2

\* C9: deletePost(id, userId) by a user who does not own the existing post id
\* changes nothing: the post, its likes and its comments stay.
C9_NonOwnerDeleteChangesNothing ==
    [][ \A id \in PostIds, u \in UserIds :
          (PostExists(posts, id) /\ OwnerOf(posts, id) # u /\ DeletePost(id, u))
          => UNCHANGED <<posts, likes, comments>> ]_vars

----------------------------------------------------------------------------
(* Storage calls statement by statement: every await is a point where      *)
(* another request's statement may run                                     *)

IdleProcs == [r \in Requests |-> Idle]

InitConc ==
    /\ users = [u \in UserIds |-> NoUser]
    /\ posts = {}
    /\ likes = EmptyLikes
    /\ comments = {}
    /\ follows = EmptyFollows
    /\ stories = {}
    /\ nextId = [post |-> 1, comment |-> 1, story |-> 1]
    /\ now = 0
    /\ procs = IdleProcs
    /\ last = NoOp

\* toggleLike, first statement: the select
ToggleLikeRead(r, u, p) ==
    /\ procs[r] = Idle
    /\ procs' = [procs EXCEPT ![r] = [op |-> "toggleLike", a |-> u, b |-> p,
                                      pc |-> "write", seen |-> existingLike(likes, u, p)]]
    /\ UNCHANGED <<users, posts, likes, comments, follows, stories, nextId, now, last>>

\* toggleLike, second statement: the delete or the insert, chosen by what the
\* select saw; a failed insert rejects the call
ToggleLikeWrite(r) ==
    /\ procs[r].op = "toggleLike"
    /\ likes' = IF procs[r].seen
                THEN deleteLike(likes, procs[r].a, procs[r].b)
                ELSE insertLike(likes, posts, procs[r].a, procs[r].b).likes
    /\ procs' = [procs EXCEPT ![r] = Idle]
    /\ UNCHANGED <<users, posts, comments, follows, stories, nextId, now, last>>

ToggleFollowRead(r, f, g) ==
    /\ procs[r] = Idle
    /\ procs' = [procs EXCEPT ![r] = [op |-> "toggleFollow", a |-> f, b |-> g,
                                      pc |-> "write", seen |-> existingFollow(follows, f, g)]]
    /\ UNCHANGED <<users, posts, likes, comments, follows, stories, nextId, now, last>>

ToggleFollowWrite(r) ==
    /\ procs[r].op = "toggleFollow"
    /\ follows' = IF procs[r].seen
                  THEN deleteFollow(follows, procs[r].a, procs[r].b)
                  ELSE insertFollow(follows, procs[r].a, procs[r].b).follows
    /\ procs' = [procs EXCEPT ![r] = Idle]
    /\ UNCHANGED <<users, posts, likes, comments, stories, nextId, now, last>>

NextRace ==
    \/ \E r \in Requests, u \in UserIds, p \in PostIds : ToggleLikeRead(r, u, p)
    \/ \E r \in Requests : ToggleLikeWrite(r)
    \/ \E r \in Requests, f \in UserIds, g \in UserIds : ToggleFollowRead(r, f, g)
    \/ \E r \in Requests : ToggleFollowWrite(r)

SpecRace == InitConc /\ [][NextRace]_vars

----------------------------------------------------------------------------
(* SpecDelete: deletePost / deletePostAsAdmin statement by statement,      *)
(* interleaved with toggleLike and createComment on posts that exist when  *)
(* the request arrives                                                     *)

\* deletePost / deletePostAsAdmin, first statement: delete the post's likes
DeleteStmtLikes(r, op, id, userId) ==
    /\ procs[r] = Idle
    /\ likes' = deleteLikesOfPost(likes, id)
    /\ procs' = [procs EXCEPT ![r] = [op |-> op, a |-> userId, b |-> id,
                                      pc |-> "comments", seen |-> FALSE]]
    /\ UNCHANGED <<users, posts, comments, follows, stories, nextId, now, last>>

\* second statement: delete the post's comments
DeleteStmtComments(r) ==
    /\ procs[r].op \in {"deletePost", "deletePostAsAdmin"}
    /\ procs[r].pc = "comments"
    /\ comments' = deleteCommentsOfPost(comments, procs[r].b)
    /\ procs' = [procs EXCEPT ![r].pc = "post"]
    /\ UNCHANGED <<users, posts, likes, follows, stories, nextId, now, last>>

\* third statement: delete the post row (for deletePost, only if owned); a
\* foreign key violation rejects the call and leaves the row
DeleteStmtPost(r) ==
    /\ procs[r].op \in {"deletePost", "deletePostAsAdmin"}
    /\ procs[r].pc = "post"
    /\ posts' = IF ~unreferenced(likes, comments, procs[r].b) THEN posts
                ELSE IF procs[r].op = "deletePost"
                THEN deleteOwnedPostRow(posts, procs[r].b, procs[r].a)
                ELSE deletePostRow(posts, procs[r].b)
    /\ procs' = [procs EXCEPT ![r] = Idle]
    /\ UNCHANGED <<users, likes, comments, follows, stories, nextId, now, last>>

NextDelete ==
    \/ \E u \in UserIds : CreatePost(u, NoCaption, MaxPosts)
    \/ \E p \in PostIds : PostExists(posts, p) /\ CreateComment(p)
    \/ \E r \in Requests, u \in UserIds, p \in PostIds :
          PostExists(posts, p) /\ ToggleLikeRead(r, u, p)
    \/ \E r \in Requests : ToggleLikeWrite(r)
    \/ \E r \in Requests, id \in PostIds, u \in UserIds :
          DeleteStmtLikes(r, "deletePost", id, u)
    \/ \E r \in Requests, id \in PostIds :
          DeleteStmtLikes(r, "deletePostAsAdmin", id, "admin")
    \/ \E r \in Requests : DeleteStmtComments(r)
    \/ \E r \in Requests : DeleteStmtPost(r)

SpecDelete == InitConc /\ [][NextDelete]_vars

Quiescent == \A r \in Requests : procs[r] = Idle

\* C10: once every started call has completed, every like row and every
\* comment row refers to a post that exists, whatever the interleaving of
\* toggleLike and createComment with the three statements of a delete.
C10_NoOrphansWhenQuiescent ==
    Quiescent =>
        /\ \A k \in LikeKeys : likes[k] > 0 => PostExists(posts, k[2])
        /\ \A c \in comments : PostExists(posts, c.postId)

----------------------------------------------------------------------------
(* SpecAdmin: the isAdmin middleware in front of the admin routes *)

\* users.isAdmin is "true", "false" or never set ("null"); the new row's value
\* when the identity provider's claims carry none
NewUserFlags == {"false", "null"}

AdminRoutes == {"GET /api/admin/users", "POST /api/admin/verify-user"}

\* getUser(id): the row, or undefined (NoUser)
getUser(U, id) == U[id]

\* the middleware's test with the optional chain dropped: only a missing
\* record is turned away
adminAllowed_MissingOnly(currentUser) == currentUser.exists

\* !currentUser?.isAdmin is false: the record exists and its flag is truthy
adminAllowed(currentUser) ==
    IF ~currentUser.exists THEN FALSE ELSE currentUser.isAdmin = "true"

\* update users set isVerified = true where id = userId
verifyUser(U, userId) ==
    IF ~U[userId].exists THEN U ELSE [U EXCEPT ![userId].isVerified = TRUE]

\* upsertUser: insert, or update the claims' columns of the row in place
UpsertUser(u, flag) ==
    /\ users' = IF ~users[u].exists
                THEN [users EXCEPT ![u] = [exists |-> TRUE, isAdmin |-> flag,
                                           isVerified |-> FALSE]]
                ELSE users
    /\ users' # users
    /\ UNCHANGED <<posts, likes, comments, follows, stories, nextId, now, procs, last>>

\* makeAdmin / removeAdmin: update users set isAdmin = ... where id = userId
SetAdmin(u, flag) ==
    /\ users[u].exists
    /\ users[u].isAdmin # flag
    /\ users' = [users EXCEPT ![u].isAdmin = flag]
    /\ UNCHANGED <<posts, likes, comments, follows, stories, nextId, now, procs, last>>

\* One authenticated request to an admin route: the middleware loads the
\* caller's record (the lookup may throw), answers 403 or 500 itself, or calls
\* next(); the handler then runs its storage call (which may throw: 500).
\* The listing's paging is not part of the response modelled here.
AdminRequest(route, caller, target, lookupThrows, handlerThrows) ==
    LET currentUser == getUser(users, caller)
        passes == ~lookupThrows /\ adminAllowed(currentUser)
        status == IF lookupThrows THEN 500
                  ELSE IF ~adminAllowed(currentUser) THEN 403
                  ELSE IF handlerThrows THEN 500
                  ELSE 200
    IN  /\ users' = IF passes /\ ~handlerThrows /\ route = "POST /api/admin/verify-user"
                    THEN verifyUser(users, target)
                    ELSE users
        /\ last' = [op |-> route, caller |-> caller, target |-> target,
                    lookupThrew |-> lookupThrows,
                    loaded |-> IF lookupThrows THEN NoUser ELSE currentUser,
                    handlerRan |-> passes, status |-> status,
                    pre |-> users, post |-> users']
        /\ UNCHANGED <<posts, likes, comments, follows, stories, nextId, now, procs>>

NextAdmin ==
    \/ \E u \in UserIds, flag \in NewUserFlags : UpsertUser(u, flag)
    \/ \E u \in UserIds, flag \in {"true", "false"} : SetAdmin(u, flag)
    \/ \E route \in AdminRoutes, caller \in UserIds, target \in UserIds,
          lookupThrows \in BOOLEAN, handlerThrows \in BOOLEAN :
          AdminRequest(route, caller, target, lookupThrows, handlerThrows)

SpecAdmin == Init /\ [][NextAdmin]_vars

\* C4: after every request to an admin route: the handler ran only if the
\* caller's record was loaded, exists and has isAdmin set; a missing record or
\* an unset flag gave 403 and left the store as it was; a failed lookup gave
\* 500 without running the handler; and an admin caller reached the handler.
C4_AdminGate ==
    last.op \in AdminRoutes =>
        LET isAdminCaller == /\ ~last.lookupThrew
                             /\ last.pre[last.caller].exists
                             /\ last.pre[last.caller].isAdmin = "true"
        IN  /\ last.handlerRan <=> isAdminCaller
            /\ (~last.lookupThrew /\ ~isAdminCaller) =>
                   (last.status = 403 /\ last.post = last.pre)
            /\ last.lookupThrew =>
                   (last.status = 500 /\ ~last.handlerRan /\ last.post = last.pre)
            /\ last.status = 200 => isAdminCaller

\* a caller whose record exists with isAdmin false has just been refused with
\* 403 while another user is an admin
C4_Witness ==
    /\ last.op = "POST /api/admin/verify-user"
    /\ last.status = 403
    /\ last.pre[last.caller].exists
    /\ last.pre[last.caller].isAdmin = "false"
    /\ \E u \in UserIds : users[u].exists /\ users[u].isAdmin = "true"

----------------------------------------------------------------------------
(* SpecPosts: GET /api/posts, with its query parsing and paging *)

\* an absent parameter is undefined, which parseInt reads as the string
\* "undefined"
Absent == <<"u", "n", "d", "e", "f", "i", "n", "e", "d">>

\* the query values tried: absent, "0", "1", "2", "-1", "-0", "a" and "1a"
QueryValues ==
    {Absent, <<"0">>, <<"1">>, <<"2">>, <<"-", "1">>, <<"-", "0">>, <<"a">>, <<"1", "a">>}

IsDigit(c) == c \in {"0", "1", "2", "3", "4", "5", "6", "7", "8", "9"}

DigitVal(c) ==
    CASE c = "0" -> 0 [] c = "1" -> 1 [] c = "2" -> 2 [] c = "3" -> 3 [] c = "4" -> 4
      [] c = "5" -> 5 [] c = "6" -> 6 [] c = "7" -> 7 [] c = "8" -> 8 [] c = "9" -> 9

NaN == [nan |-> TRUE, val |-> 0]
Num(n) == [nan |-> FALSE, val |-> n]

\* the value of the longest prefix of decimal digits of s, given the value acc
\* and the count seen of the digits read so far
RECURSIVE ParseDigits(_, _, _)
ParseDigits(s, acc, seen) ==
    IF s = <<>> \/ ~IsDigit(Head(s))
    THEN [seen |-> seen, val |-> acc]
    ELSE ParseDigits(Tail(s), 10 * acc + DigitVal(Head(s)), seen + 1)

\* parseInt(string): an optional sign, then the longest prefix of digits; NaN
\* when there is no digit
parseInt(s) ==
    LET signed == s # <<>> /\ Head(s) \in {"-", "+"}
        d == ParseDigits(IF signed THEN Tail(s) ELSE s, 0, 0)
    IN  IF d.seen = 0 THEN NaN
        ELSE IF signed /\ Head(s) = "-" THEN Num(0 - d.val)
        ELSE Num(d.val)

\* x || dflt on a number: NaN and 0 are falsy
OrDefault(x, dflt) == IF x.nan \/ x.val = 0 THEN dflt ELSE x.val

DefaultPostsLimit == 20
DefaultOffset == 0

Min(a, b) == IF a < b THEN a ELSE b

\* the orders "ORDER BY createdAt DESC" may produce: rows with equal
\* createdAt come in any order
OrderedByCreatedAtDesc(P) ==
    {s \in [1..Cardinality(P) -> P] :
        /\ \A i, j \in DOMAIN s : i # j => s[i] # s[j]
        /\ \A i, j \in DOMAIN s : i < j => s[i].createdAt >= s[j].createdAt}

\* getPosts(limit, offset): the results the query may return; the store
\* rejects a negative LIMIT or OFFSET
getPosts(P, limit, offset) ==
    IF limit < 0 \/ offset < 0
    THEN [threw |-> TRUE, rows |-> {}]
    ELSE [threw |-> FALSE,
          rows |-> {SubSeq(s, offset + 1, Min(Len(s), offset + limit)) :
                        s \in OrderedByCreatedAtDesc(P)}]

\* the clock moves on
Tick ==
    /\ now < MaxTime
    /\ now' = now + 1
    /\ UNCHANGED <<users, posts, likes, comments, follows, stories, nextId, procs, last>>

\* what the handler adds to each post: the like count and the comment count
\* (the user record and the three newest comments are left out of the body)
Enriched(post) ==
    [id |-> post.id, userId |-> post.userId, createdAt |-> post.createdAt,
     likeCount |-> getLikeCount(likes, post.id),
     commentCount |-> Cardinality({c \in comments : c.postId = post.id})]

GetPosts(limitQ, offsetQ) ==
    LET limit == OrDefault(parseInt(limitQ), DefaultPostsLimit)
        offset == OrDefault(parseInt(offsetQ), DefaultOffset)
        res == getPosts(posts, limit, offset)
    IN  /\ \/ /\ res.threw
              /\ last' = [op |-> "GET /api/posts", limitQ |-> limitQ, offsetQ |-> offsetQ,
                          status |-> 500, body |-> <<>>]
           \/ /\ ~res.threw
              /\ \E rows \in res.rows :
                    last' = [op |-> "GET /api/posts", limitQ |-> limitQ,
                             offsetQ |-> offsetQ, status |-> 200,
                             body |-> [i \in DOMAIN rows |-> Enriched(rows[i])]]
        /\ UNCHANGED <<users, posts, likes, comments, follows, stories, nextId, now, procs>>

NextPosts ==
    \/ \E u \in UserIds : CreatePost(u, NoCaption, MaxPosts)
    \/ Tick
    \/ \E limitQ \in QueryValues, offsetQ \in QueryValues : GetPosts(limitQ, offsetQ)

SpecPosts == Init /\ [][NextPosts]_vars

\* the number a query value states, when it states one
StatedLimit(q) == IF parseInt(q).nan THEN DefaultPostsLimit ELSE parseInt(q).val

\* C5: whatever the limit and offset parameters, a GET /posts response holds
\* no more items than the limit the request states (20 when it states none),
\* ordered by createdAt descending.
C5_AtMostLimitNewestFirst ==
    (last.op = "GET /api/posts" /\ last.status = 200) =>
        /\ Len(last.body) <= StatedLimit(last.limitQ)
        /\ \A i, j \in DOMAIN last.body :
              i < j => last.body[i].createdAt >= last.body[j].createdAt

----------------------------------------------------------------------------
(* SpecStories: createStory, GET /api/stories and the expired-story sweep. *)
(* The clock counts half days, so the 24 hours a story lives are 2 ticks.  *)

StoryTtl == 2

\* createStory: expiresAt = Date.now() + 24 h
CreateStory(u) ==
    /\ nextId.story <= MaxStories
    /\ stories' = stories \cup {[id |-> nextId.story, userId |-> u, createdAt |-> now,
                                expiresAt |-> now + StoryTtl]}
    /\ nextId' = [nextId EXCEPT !.story = @ + 1]
    /\ UNCHANGED <<users, posts, likes, comments, follows, now, procs, last>>

\* getActiveStories: where expiresAt > NOW()
getActiveStories(S, t) == {s \in S : s.expiresAt > t}

\* deleteExpiredStories: delete where expiresAt < new Date(); what is left
deleteExpiredStories(S, t) == {s \in S : ~(s.expiresAt < t)}

\* GET /api/stories: the active stories, newest first, each with its user
GetStories ==
    /\ \E body \in OrderedByCreatedAtDesc(getActiveStories(stories, now)) :
          last' = [op |-> "GET /api/stories", at |-> now, status |-> 200,
                   body |-> [i \in DOMAIN body |->
                               [story |-> body[i], user |-> getUser(users, body[i].userId)]]]
    /\ UNCHANGED <<users, posts, likes, comments, follows, stories, nextId, now, procs>>

\* the sweep, run at the current time
DeleteExpiredStories ==
    /\ stories' = deleteExpiredStories(stories, now)
    /\ last' = [op |-> "deleteExpiredStories", at |-> now, before |-> stories,
                left |-> stories']
    /\ UNCHANGED <<users, posts, likes, comments, follows, nextId, now, procs>>

NextStories ==
    \/ \E u \in UserIds : CreateStory(u)
    \/ Tick
    \/ GetStories
    \/ DeleteExpiredStories

SpecStories == Init /\ [][NextStories]_vars

\* C6: GET /stories, answered at time t, holds no story with expiresAt <= t;
\* and the sweep run at time t leaves no story with expiresAt <= t and keeps
\* every story with expiresAt > t.
C6_ExpiredNeitherShownNorKept ==
    /\ last.op = "GET /api/stories" =>
          \A i \in DOMAIN last.body : last.body[i].story.expiresAt > last.at
    /\ last.op = "deleteExpiredStories" =>
          last.left = {s \in last.before : s.expiresAt > last.at}

----------------------------------------------------------------------------
(* SpecTags: getTrendingHashtags over the captions of the stored posts *)

\* the captions posts are created with, as character sequences:
\*   "I love #cats", "#cats are great", "#dogs too",
\*   "#a, #a #a, b#c"     (a token twice, a token with punctuation, an inner '#')
\*   " # #dogs  #cats "   (white space at both ends and doubled, a bare '#')
Captions ==
    {<<"I", " ", "l", "o", "v", "e", " ", "#", "c", "a", "t", "s">>,
     <<"#", "c", "a", "t", "s", " ", "a", "r", "e", " ", "g", "r", "e", "a", "t">>,
     <<"#", "d", "o", "g", "s", " ", "t", "o", "o">>,
     <<"#", "a", ",", " ", "#", "a", " ", "#", "a", ",", " ", "b", "#", "c">>,
     <<" ", "#", " ", "#", "d", "o", "g", "s", " ", " ", "#", "c", "a", "t", "s", " ">>}

\* \s: white space
IsSpace(c) == c \in {" ", "\t", "\n", "\r"}

\* \w: a letter, a digit or the underscore
IsWord(c) ==
    c \in {"a", "b", "c", "d", "e", "f", "g", "h", "i", "j", "k", "l", "m",
           "n", "o", "p", "q", "r", "s", "t", "u", "v", "w", "x", "y", "z",
           "A", "B", "C", "D", "E", "F", "G", "H", "I", "J", "K", "L", "M",
           "N", "O", "P", "Q", "R", "S", "T", "U", "V", "W", "X", "Y", "Z",
           "0", "1", "2", "3", "4", "5", "6", "7", "8", "9", "_"}

RECURSIVE DropSpaces(_)
DropSpaces(s) == IF s # <<>> /\ IsSpace(Head(s)) THEN DropSpaces(Tail(s)) ELSE s

\* regexp_split_to_array(caption, '\s+') with cur the token being read: a
\* separator at either end of the caption leaves an empty token there
RECURSIVE SplitFrom(_, _)
SplitFrom(s, cur) ==
    IF s = <<>> THEN <<cur>>
    ELSE IF IsSpace(Head(s)) THEN <<cur>> \o SplitFrom(DropSpaces(s), <<>>)
    ELSE SplitFrom(Tail(s), Append(cur, Head(s)))

regexp_split_to_array(s) == SplitFrom(s, <<>>)

\* caption ~ '#\w+': a '#' followed by a word character, anywhere
ContainsHashtag(s) == \E i \in 1..(Len(s) - 1) : s[i] = "#" /\ IsWord(s[i + 1])

\* the token filter without its anchor: any token of a caption that holds a
\* hashtag passes
StartsWithHashtag_Unfiltered(t) == TRUE

\* hashtag ~ '^#\w+': the token starts with '#' and a word character
StartsWithHashtag(t) == Len(t) >= 2 /\ t[1] = "#" /\ IsWord(t[2])

\* unnest(regexp_split_to_array(caption, '\s+')), id: one row per token of
\* the post's caption, named by post id and position
UnnestTokens(r) ==
    LET tokens == regexp_split_to_array(r.caption)
    IN  {<<r.id, i, tokens[i]>> : i \in DOMAIN tokens}

\* the rows of the "hashtags" CTE that pass the outer WHERE
HashtagRows(P) ==
    {x \in UNION {UnnestTokens(r) : r \in {q \in P : ContainsHashtag(q.caption)}} :
        StartsWithHashtag(x[3])}

\* GROUP BY hashtag with COUNT(*)
HashtagGroups(P) ==
    LET rows == HashtagRows(P)
    IN  {[tag |-> t, posts |-> Cardinality({x \in rows : x[3] = t})] :
            t \in {x[3] : x \in rows}}

\* the orders "ORDER BY posts DESC" may produce: groups with equal counts
\* come in any order
RECURSIVE OrderedByPostsDesc(_)
OrderedByPostsDesc(G) ==
    IF G = {} THEN {<<>>}
    ELSE UNION {{<<g>> \o s : s \in OrderedByPostsDesc(G \ {g})} :
                g \in {x \in G : \A y \in G : x.posts >= y.posts}}

\* getTrendingHashtags(limit): the results the query may return; the store
\* rejects a negative LIMIT
getTrendingHashtags(P, limit) ==
    IF limit < 0
    THEN [threw |-> TRUE, rows |-> {}]
    ELSE [threw |-> FALSE,
          rows |-> {SubSeq(s, 1, Min(Len(s), limit)) :
                        s \in OrderedByPostsDesc(HashtagGroups(P))}]

GetTrendingHashtags(limit) ==
    LET res == getTrendingHashtags(posts, limit)
    IN  /\ \/ /\ res.threw
              /\ last' = [op |-> "getTrendingHashtags", limit |-> limit, threw |-> TRUE,
                          result |-> <<>>, of |-> posts]
           \/ /\ ~res.threw
              /\ \E rows \in res.rows :
                    last' = [op |-> "getTrendingHashtags", limit |-> limit,
                             threw |-> FALSE, result |-> rows, of |-> posts]
        /\ UNCHANGED <<users, posts, likes, comments, follows, stories, nextId, now, procs>>

NextTags ==
    \/ \E c \in Captions : CreatePost("u1", c, MaxTagPosts)
    \/ \E limit \in -1..MaxTagLimit : GetTrendingHashtags(limit)

SpecTags == Init /\ [][NextTags]_vars

\* a token occurrence, said without splitting: a maximal run of characters
\* that are not white space, from position i to position j of the caption
IsTokenAt(s, i, j) ==
    /\ 1 <= i /\ i <= j /\ j <= Len(s)
    /\ \A k \in i..j : ~IsSpace(s[k])
    /\ i = 1 \/ IsSpace(s[i - 1])
    /\ j = Len(s) \/ IsSpace(s[j + 1])

\* the token occurrences of caption s: <<position, token>>
TokensOf(s) ==
    {<<sp[1], SubSeq(s, sp[1], sp[2])>> :
        sp \in {x \in (1..Len(s)) \X (1..Len(s)) : IsTokenAt(s, x[1], x[2])}}

\* every token occurrence in the captions of P: <<post id, position, token>>
TokenOccurrences(P) ==
    UNION {{<<r.id, x[1], x[2]>> : x \in TokensOf(r.caption)} : r \in P}

\* the token has the shape of a hashtag: '#', a word character, and whatever
\* follows up to the next white space
IsHashtagToken(t) == Len(t) >= 2 /\ t[1] = "#" /\ IsWord(t[2])

ExamplePosts ==
    {[id |-> 1, userId |-> "u1", createdAt |-> 0, caption |-> <<"I", " ", "l", "o", "v", "e", " ", "#", "c", "a", "t", "s">>],
     [id |-> 2, userId |-> "u1", createdAt |-> 0, caption |-> <<"#", "c", "a", "t", "s", " ", "a", "r", "e", " ", "g", "r", "e", "a", "t">>],
     [id |-> 3, userId |-> "u1", createdAt |-> 0, caption |-> <<"#", "d", "o", "g", "s", " ", "t", "o", "o">>]}

ExampleResult ==
    <<[tag |-> <<"#", "c", "a", "t", "s">>, posts |-> 2],
      [tag |-> <<"#", "d", "o", "g", "s">>, posts |-> 1]>>

\* C7: getTrendingHashtags(N) returns at most N entries, each a hashtag token
\* of some caption paired with the number of its occurrences across all
\* captions, in descending order of count, and no hashtag token left out
\* occurs more often than a returned one; on the three example captions with
\* N = 2 the result is #cats with 2, then #dogs with 1.
C7_TrendingTopN ==
    (last.op = "getTrendingHashtags" /\ ~last.threw) =>
        LET res == last.result
            occ == TokenOccurrences(last.of)
            tags == {t \in {x[3] : x \in occ} : IsHashtagToken(t)}
            count == [t \in tags |-> Cardinality({x \in occ : x[3] = t})]
        IN  /\ Len(res) <= last.limit
            /\ \A i \in DOMAIN res :
                  res[i].tag \in tags /\ res[i].posts = count[res[i].tag]
            /\ \A i, j \in DOMAIN res : i < j => res[i].posts >= res[j].posts
            /\ \A i, j \in DOMAIN res : i # j => res[i].tag # res[j].tag
            /\ \A t \in tags :
                  (\A i \in DOMAIN res : res[i].tag # t) =>
                      /\ Len(res) = last.limit
                      /\ \A i \in DOMAIN res : count[t] <= res[i].posts
            /\ (last.of = ExamplePosts /\ last.limit = 2) => res = ExampleResult

\* the example of the claim has just been answered
C7_Witness ==
    /\ last.op = "getTrendingHashtags"
    /\ last.of = ExamplePosts
    /\ last.limit = 2
    /\ last.result = ExampleResult

----------------------------------------------------------------------------
(* SpecCreate: POST /api/posts *)

\* what the upload middleware hands on: no file, an accepted image, or a file
\* its filter rejects (the error goes to the framework, which answers 500)
Uploads == {"none", "image", "rejected"}

\* a body field as the handler reads it: absent, a string, or not a string
FieldValues == {"absent", "text", "malformed"}

SomeText == <<"h", "i">>

\* the fields a Post must have: all but the location
RequiredPostFields == {"userId", "caption", "imageUrl"}

\* insertPostSchema.parse(data) throws: a field is malformed, or a required
\* one is missing
insertPostSchemaRejects(data) ==
    \/ \E f \in DOMAIN data : data[f] = "malformed"
    \/ \E f \in RequiredPostFields : data[f] = "absent"

CreatePostRequest(u, upload, caption, location, storeThrows) ==
    LET data == [userId |-> "text", caption |-> caption, location |-> location,
                 imageUrl |-> "text"]
        status == IF upload = "rejected" THEN 500
                  ELSE IF upload = "none" THEN 400
                  ELSE IF insertPostSchemaRejects(data) THEN 500
                  ELSE IF storeThrows THEN 500
                  ELSE 200
    IN  /\ status = 200 => nextId.post <= MaxPosts
        /\ posts' = IF status = 200
                    THEN posts \cup {[id |-> nextId.post, userId |-> u, createdAt |-> now,
                                     caption |-> SomeText]}
                    ELSE posts
        /\ nextId' = IF status = 200 THEN [nextId EXCEPT !.post = @ + 1] ELSE nextId
        /\ last' = [op |-> "POST /api/posts", caller |-> u, upload |-> upload,
                    caption |-> caption, location |-> location,
                    storeThrew |-> (upload = "image" /\ ~insertPostSchemaRejects(data)
                                    /\ storeThrows),
                    invalid |-> insertPostSchemaRejects(data),
                    status |-> status, pre |-> posts, post |-> posts']
        /\ UNCHANGED <<users, likes, comments, follows, stories, now, procs>>

NextCreate ==
    \/ \E u \in UserIds, upload \in Uploads, caption \in FieldValues,
          location \in FieldValues, storeThrows \in BOOLEAN :
          CreatePostRequest(u, upload, caption, location, storeThrows)
    \/ \E id \in PostIds : DeletePostAsAdmin(id)

SpecCreate == Init /\ [][NextCreate]_vars

\* C8: a POST /posts request without an image, or with an image and a body
\* that fails validation, is answered 400 and creates no post; 500 answers
\* only a store or unexpected failure.
C8_ValidationErrorIs400 ==
    last.op = "POST /api/posts" =>
        /\ (last.upload = "none" \/ (last.upload = "image" /\ last.invalid)) =>
               (last.status = 400 /\ last.post = last.pre)
        /\ last.status = 500 => (last.upload = "rejected" \/ last.storeThrew)

====
